---- MODULE Spec2Model ----
(***************************************************************************)
(* A model of the osde2e end-to-end orchestrator (package e2e):            *)
(*   - openPDAlerts       : alert consolidation for one junit result file  *)
(*   - runTestsInPhase    : one test phase (install / upgrade)             *)
(*   - runGinkgoTests     : the top-level run                              *)
(*   - setupRouteMonitors : the route-monitor goroutines                   *)
(* Strings are TLA+ strings; strings.Contains / strings.ToLower and string *)
(* concatenation are computed character by character.                      *)
(***************************************************************************)
EXTENDS Integers, Sequences, FiniteSets, TLC

VARIABLES
    \* ---- alert consolidation (openPDAlerts applied to one input)
    alertIn,        \* the arguments of the last openPDAlerts call
    pdAlerts,       \* calls of pagerduty FireAlert, in call order
    slackMsgs,      \* calls of alert.SendSlackMessage, in call order
    alertPc,        \* "idle" | "called"
    \* ---- one test phase (runTestsInPhase applied to one input)
    phaseIn,        \* the arguments, the values read and the collaborators' outcomes
    phaseOut,       \* what the call returned and did
    phasePc,        \* "idle" | "called"
    \* ---- the top-level run (runGinkgoTests) and the monitor goroutine it starts
    pc,                     \* the position of runGinkgoTests
    cfg,                    \* the configuration read (viper, environment)
    kubeconfigContents,     \* config.Kubeconfig.Contents is not empty
    clusterID,              \* config.Cluster.ID is not empty
    testsPassed,            \* result of the install phase
    upgradeTestsPassed,     \* result of the upgrade phase
    installTestCaseData,
    upgradeTestCaseData,
    clusterPassing,         \* config.Cluster.Passing
    calls,                  \* the collaborator calls of the run, in order
    exitCode,               \* what runGinkgoTests returned
    monPc,                  \* the position of the goroutine of setupRouteMonitors
    routeMonitorChan,       \* "nil" | "open" | "closed"
    closeMonitorChan,       \* "open" | "closed"
    jobResult,              \* the Result of the job stored by q.CreateJob, or "none"
    clusterStatus,          \* clusterproperties.Status set by cleanupAfterE2E, or "none"
    \* ---- the route monitors and the goroutines of setupRouteMonitors
    emitted,        \* per monitor, the number of results its channel has delivered
    ended,          \* routeMonitors.End() was called
    forwarders,     \* per monitor channel, the goroutine of line 1096: position, msg
    consolidator,   \* the goroutine of line 1092: position, msg
    Metrics,        \* routeMonitors.Metrics: per monitor, the results added
    Plots,          \* routeMonitors.Plots: per monitor, the results added
    savedReports,   \* what SaveReports wrote
    savedPlots,     \* what SavePlots wrote
    stopMark,       \* the value of emitted when routeMonitorChan was closed
    monLog,         \* the calls of the stop handler, in order
    \* ---- the counters of metadata.Instance over the phases of a run
    logMetrics,         \* the sum of metadata.Instance.LogMetrics
    beforeSuiteMetrics, \* the sum of metadata.Instance.BeforeSuiteMetrics
    metricReports,      \* per phase that wrote them, the counts of its junit files
    metricsPc           \* the phase about to run: "install" | "upgrade" | "done"

alertVars == <<alertIn, pdAlerts, slackMsgs, alertPc>>
phaseVars == <<phaseIn, phaseOut, phasePc>>
runVars == <<pc, cfg, kubeconfigContents, clusterID, testsPassed, upgradeTestsPassed,
             installTestCaseData, upgradeTestCaseData, clusterPassing, calls, exitCode,
             monPc, routeMonitorChan, closeMonitorChan, jobResult, clusterStatus>>
routeVars == <<emitted, ended, forwarders, consolidator, Metrics, Plots, savedReports,
               savedPlots, stopMark, monLog>>
metricVars == <<logMetrics, beforeSuiteMetrics, metricReports, metricsPc>>
vars == <<alertVars, phaseVars, runVars, routeVars, metricVars>>

\* the parts of the state a specification does not use
AlertUnused == alertIn = "none" /\ pdAlerts = <<>> /\ slackMsgs = <<>> /\ alertPc = "unused"
PhaseUnused == phaseIn = "none" /\ phaseOut = "none" /\ phasePc = "unused"
RunUnused ==
    /\ pc = "unused" /\ cfg = "none" /\ kubeconfigContents = FALSE /\ clusterID = FALSE
    /\ testsPassed = FALSE /\ upgradeTestsPassed = FALSE
    /\ installTestCaseData = <<>> /\ upgradeTestCaseData = <<>>
    /\ clusterPassing = FALSE /\ calls = <<>> /\ exitCode = "none"
    /\ monPc = "none" /\ routeMonitorChan = "nil" /\ closeMonitorChan = "open"
    /\ jobResult = "none" /\ clusterStatus = "none"

-----------------------------------------------------------------------------
(* Bounds of the model *)

\* most plain (non-informing) failing test cases in one result file
MaxPlainFail == 12
\* most failing test cases with the informing marker in one result file
MaxInformingFail == 12
\* most failing test cases whose name repeats an earlier failing name
MaxDupFail == 2

\* most failing test cases of either kind in one result file of a phase whose
\* alerts are examined
MaxPhaseFail == 11
\* most failing test cases of either kind in a result file otherwise
MaxPerOutcome == 1
\* most result files in a phase directory
MaxFiles == 2
\* the test names of the second result file start after this number
NameStride == 20

\* most results one monitor delivers
MaxSamples == 2

\* the most matches that the log files of one phase hold per kind of metric
MaxMatches == 2

(* Program constants *)

\* len(failingTests) > 10
BulkThreshold == 10

\* the values runGinkgoTests returns
Success == 0
Failure == 1
Aborted == 130

\* the keys of routeMonitors.Monitors: the routes monitored
Targets == {"console", "oauth"}

NoMsg == [Attack |-> "", Seq |-> 0]

MetricsUnused ==
    /\ logMetrics = 0 /\ beforeSuiteMetrics = 0 /\ metricReports = <<>>
    /\ metricsPc = "unused"

RouteUnused ==
    /\ emitted = [t \in Targets |-> 0]
    /\ ended = FALSE
    /\ forwarders = [t \in Targets |-> [pc |-> "none", msg |-> NoMsg]]
    /\ consolidator = [pc |-> "none", msg |-> NoMsg]
    /\ Metrics = [t \in Targets |-> <<>>]
    /\ Plots = [t \in Targets |-> <<>>]
    /\ savedReports = [written |-> FALSE, data |-> [t \in Targets |-> <<>>]]
    /\ savedPlots = [written |-> FALSE, data |-> [t \in Targets |-> <<>>]]
    /\ stopMark = [given |-> FALSE, emitted |-> [t \in Targets |-> 0]]
    /\ monLog = <<>>

-----------------------------------------------------------------------------
(* Strings *)

UpperLetters == "ABCDEFGHIJKLMNOPQRSTUVWXYZ"
LowerLetters == "abcdefghijklmnopqrstuvwxyz"
Digits == "0123456789"

CharAt(s, i) == SubSeq(s, i, i)

\* unicode.ToLower restricted to ASCII letters
LowerChar(c) ==
    IF \E i \in 1..Len(UpperLetters) : CharAt(UpperLetters, i) = c
    THEN CharAt(LowerLetters, CHOOSE i \in 1..Len(UpperLetters) : CharAt(UpperLetters, i) = c)
    ELSE c

RECURSIVE ToLower(_)
\* strings.ToLower
ToLower(s) ==
    IF Len(s) = 0 THEN ""
    ELSE LowerChar(CharAt(s, 1)) \o ToLower(SubSeq(s, 2, Len(s)))

\* strings.Contains
Contains(s, substr) ==
    \E i \in 1..(Len(s) - Len(substr) + 1) : SubSeq(s, i, i + Len(substr) - 1) = substr

\* decimal rendering of a small natural number
Itoa(n) ==
    IF n < 10 THEN CharAt(Digits, n + 1)
    ELSE CharAt(Digits, (n \div 10) + 1) \o CharAt(Digits, (n % 10) + 1)

-----------------------------------------------------------------------------
(* junit test cases and result files *)

\* junit.Status
StatusPassed == "passed"
StatusSkipped == "skipped"
StatusFailed == "failed"
StatusError == "error"

TestCase(name, status, hasError) == [Name |-> name, Status |-> status, HasError |-> hasError]

PlainPrefix == "[Suite: e2e] test "
InformingPrefix == "[Suite: informing] test "
PlainName(i) == PlainPrefix \o Itoa(i)
InformingName(i) == InformingPrefix \o Itoa(i)

\* a suite of n failed tests named prefix 1 .. prefix n after base; the junit
\* library gives every failed and every errored test case an Error
FailedSuite(prefix, base, n) ==
    [i \in 1..n |-> TestCase(prefix \o Itoa(base + i), StatusFailed, TRUE)]

\* the other outcomes a suite can hold: npass passed, nskip skipped, nerr errored
OtherSuite(npass, nskip, nerr) ==
    [i \in 1..npass |-> TestCase("[Suite: e2e] ok " \o Itoa(i), StatusPassed, FALSE)]
    \o [i \in 1..nskip |-> TestCase("[Suite: e2e] skip " \o Itoa(i), StatusSkipped, FALSE)]
    \o [i \in 1..nerr |-> TestCase("[Suite: e2e] err " \o Itoa(i), StatusError, TRUE)]

\* []junit.Suite of one ingested file: plain failures (with the other outcomes),
\* informing failures, and failures repeating the first plain names
Suites(base, nplain, ninf, ndup, npass, nskip, nerr) ==
    << [Tests |-> FailedSuite(PlainPrefix, base, nplain) \o OtherSuite(npass, nskip, nerr)],
       [Tests |-> FailedSuite(InformingPrefix, base, ninf)],
       [Tests |-> FailedSuite(PlainPrefix, base, ndup)] >>

-----------------------------------------------------------------------------
(* openPDAlerts *)

RECURSIVE FailingOfTests(_)
\* inner loop of openPDAlerts: the names of the tests with Status == StatusFailed
FailingOfTests(tests) ==
    IF tests = <<>> THEN <<>>
    ELSE (IF Head(tests).Status # StatusFailed THEN <<>> ELSE <<Head(tests).Name>>)
         \o FailingOfTests(Tail(tests))

RECURSIVE FailingTests(_)
\* failingTests after the loop over suites
FailingTests(suites) ==
    IF suites = <<>> THEN <<>>
    ELSE FailingOfTests(Head(suites).Tests) \o FailingTests(Tail(suites))

\* pd.V2Payload handed to FireAlert, with the outcome of the call
Payload(summary, source, group, ok) ==
    [Summary |-> summary, Severity |-> "info", Source |-> source, Group |-> group, Ok |-> ok]

\* the addon test without lower-casing the job name
IsAddonJobCaseSensitive(jobName) == Contains(jobName, "addon")

\* the job excluded from escalation
IsAddonJob(jobName) == Contains(ToLower(jobName), "addon")

\* the test excluded from the per-test alerts
IsInforming(name) == Contains(name, "informing")

\* the bulk condition
TooManyFailed(failingTests) == Len(failingTests) > BulkThreshold

\* Summary of a per-test alert
PerTestSummary(name) == name \o " failed"

\* a per-test alert that is not grouped
PerTestGroupEmpty(name) == ""

\* Group of a per-test alert
PerTestGroup(name) == name

RECURSIVE PerTestAlerts(_, _, _)
\* "open an alert for each failing test"
PerTestAlerts(names, jobName, ok) ==
    IF names = <<>> THEN <<>>
    ELSE (IF IsInforming(Head(names)) THEN <<>>
          ELSE <<Payload(PerTestSummary(Head(names)), jobName, PerTestGroup(Head(names)), ok)>>)
         \o PerTestAlerts(Tail(names), jobName, ok)

BulkSummary == "A lot of tests failed together"

\* the slack message is sent only when FireAlert returned no error
BulkSlack(jobName, ok) == IF ok THEN <<[Channel |-> "sd-cicd", Job |-> jobName]>> ELSE <<>>

\* openPDAlerts(suites, jobName, jobURL); fireOk is the outcome of FireAlert.
\* The result is what the call adds to the FireAlert and SendSlackMessage logs.
openPDAlerts(suites, jobName, fireOk) ==
    IF IsAddonJob(jobName) THEN [alerts |-> <<>>, slack |-> <<>>]
    ELSE LET failingTests == FailingTests(suites) IN
         IF TooManyFailed(failingTests)
         THEN [alerts |-> <<Payload(BulkSummary, jobName, "", fireOk)>>,
               slack |-> BulkSlack(jobName, fireOk)]
         ELSE [alerts |-> PerTestAlerts(failingTests, jobName, fireOk), slack |-> <<>>]

-----------------------------------------------------------------------------
(* JOB_NAME values *)
JobNames == {"osde2e-prod-aws-e2e-default", "osde2e-stage-Addon-tests", "osde2e-int-addons", ""}

\* the job names of JobNames that indicate an addon context
AddonJobNames == {"osde2e-stage-Addon-tests", "osde2e-int-addons"}

\* the inputs of one openPDAlerts call
AlertInputs ==
    [nplain : 0..MaxPlainFail, ninf : 0..MaxInformingFail, ndup : 0..MaxDupFail,
     npass : 0..1, nerr : 0..1, jobName : JobNames, fireOk : BOOLEAN]

\* a repeated name repeats one of the plain failing names
DupCount(in) == IF in.ndup <= in.nplain THEN in.ndup ELSE in.nplain

SuitesOf(in) == Suites(0, in.nplain, in.ninf, DupCount(in), in.npass, 1, in.nerr)

AlertInit ==
    /\ alertIn \in AlertInputs
    /\ pdAlerts = <<>>
    /\ slackMsgs = <<>>
    /\ alertPc = "idle"
    /\ PhaseUnused
    /\ RunUnused
    /\ RouteUnused
    /\ MetricsUnused

\* one call of openPDAlerts
Escalate ==
    /\ alertPc = "idle"
    /\ LET r == openPDAlerts(SuitesOf(alertIn), alertIn.jobName, alertIn.fireOk) IN
        /\ pdAlerts' = pdAlerts \o r.alerts
        /\ slackMsgs' = slackMsgs \o r.slack
    /\ alertPc' = "called"
    /\ UNCHANGED <<alertIn, phaseVars, runVars, routeVars, metricVars>>

AlertNext == Escalate

SpecAlert == AlertInit /\ [][AlertNext]_vars

-----------------------------------------------------------------------------
(* beforeSuite *)

\* the outcomes of the collaborators beforeSuite calls
BeforeSuiteOutcomes ==
    {"ok", "emptyKubeconfig", "readFileFails", "provisionFails", "healthFails",
     "kubeconfigFails", "addonsFail"}

BeforeSuiteResult(ok, contents, cid, cs) ==
    [ok |-> ok, kubeconfigContents |-> contents, clusterID |-> cid, calls |-> cs]

\* the addon installation at the end of beforeSuite
InstallAddonsStep(env, bs, contents, cid, cs) ==
    IF env.addons /\ bs = "addonsFail"
    THEN BeforeSuiteResult(FALSE, contents, cid, cs \o <<"InstallAddons", "getLogs">>)
    ELSE BeforeSuiteResult(TRUE, contents, cid,
                           cs \o (IF env.addons THEN <<"InstallAddons">> ELSE <<>>))

\* beforeSuite(): env holds the viper values it reads (the kubeconfig path, the
\* kubeconfig contents, the cluster id, the addon ids); bs is the outcome of its
\* collaborators. kubeconfigContents and clusterID say whether the value is set.
beforeSuite(env, bs) ==
    IF env.kubeconfigPathSet /\ bs = "readFileFails"
    THEN BeforeSuiteResult(FALSE, env.kubeconfigContents, env.clusterID, <<"ReadFile">>)
    ELSE LET contents == IF env.kubeconfigPathSet THEN TRUE ELSE env.kubeconfigContents
             cs == IF env.kubeconfigPathSet THEN <<"ReadFile">> ELSE <<>>
         IN IF ~contents
            THEN IF bs = "provisionFails"
                 THEN BeforeSuiteResult(FALSE, FALSE, env.clusterID,
                                        cs \o <<"ProvisionCluster", "getLogs">>)
                 ELSE IF bs = "healthFails"
                 THEN BeforeSuiteResult(FALSE, FALSE, TRUE,
                                        cs \o <<"ProvisionCluster", "WaitForClusterReady", "getLogs">>)
                 ELSE IF bs = "kubeconfigFails"
                 THEN BeforeSuiteResult(FALSE, FALSE, TRUE,
                                        cs \o <<"ProvisionCluster", "WaitForClusterReady",
                                                   "ClusterKubeconfig", "getLogs">>)
                 ELSE InstallAddonsStep(env, bs, bs # "emptyKubeconfig", TRUE,
                                        cs \o <<"ProvisionCluster", "WaitForClusterReady",
                                                   "ClusterKubeconfig", "getLogs">>)
            ELSE InstallAddonsStep(env, bs, contents, env.clusterID, cs)

-----------------------------------------------------------------------------
(* runTestsInPhase *)

InstallPhase == "install"
UpgradePhase == "upgrade"

\* db.TestResult of a junit.Status (the switch of the Result closure)
TestResultOf(s) ==
    CASE s = "passed" -> "TestResultPassed"
      [] s = "failure" -> "TestResultFailure"
      [] s = "skipped" -> "TestResultSkipped"
      [] OTHER -> "TestResultError"

\* db.CreateTestcaseParams of a test without an Error
TestcaseParams(test) == [Result |-> TestResultOf(test.Status), Name |-> test.Name, Error |-> ""]

RECURSIVE AllTests(_)
\* the tests in the order of "for suites { for Tests {" 
AllTests(suites) ==
    IF suites = <<>> THEN <<>> ELSE Head(suites).Tests \o AllTests(Tail(suites))

RECURSIVE CountTests(_)
\* numTests of the counting loop
CountTests(tests) ==
    IF tests = <<>> THEN 0
    ELSE (IF Head(tests).Status # StatusSkipped THEN 1 ELSE 0) + CountTests(Tail(tests))

RECURSIVE CountPassingWithSkipped(_)
\* a count of passing tests that forgets "!isSkipped"
CountPassingWithSkipped(tests) ==
    IF tests = <<>> THEN 0
    ELSE (IF Head(tests).Status # StatusFailed THEN 1 ELSE 0)
         + CountPassingWithSkipped(Tail(tests))

RECURSIVE CountPassing(_)
\* numPassingTests of the counting loop: !isFail && !isSkipped
CountPassing(tests) ==
    IF tests = <<>> THEN 0
    ELSE (IF Head(tests).Status # StatusFailed /\ Head(tests).Status # StatusSkipped THEN 1 ELSE 0)
         + CountPassing(Tail(tests))

\* The Error closure of a record: test.Error != nil makes it call err.Error(),
\* where err is the error of junit.IngestFile, nil at this point: the call
\* dereferences nil and panics.
ErrorClosurePanics(test) == test.HasError

RECURSIVE ResultsComputed(_)
\* the values the Result closure returned in "record each test case": the
\* closure of a record runs before its Error closure, so it ran for every test
\* up to the one whose Error closure panics, that one included
ResultsComputed(tests) ==
    IF tests = <<>> THEN <<>>
    ELSE IF ErrorClosurePanics(Head(tests)) THEN <<TestResultOf(Head(tests).Status)>>
    ELSE <<TestResultOf(Head(tests).Status)>> \o ResultsComputed(Tail(tests))

RECURSIVE RecordTests(_)
\* "record each test case": the records appended, and whether the loop panicked
RecordTests(tests) ==
    IF tests = <<>> THEN [records |-> <<>>, panicked |-> FALSE]
    ELSE IF ErrorClosurePanics(Head(tests)) THEN [records |-> <<>>, panicked |-> TRUE]
    ELSE LET rest == RecordTests(Tail(tests)) IN
         [records |-> <<TestcaseParams(Head(tests))>> \o rest.records, panicked |-> rest.panicked]

\* the calls one openPDAlerts call makes, in order
AlertCalls(r) ==
    [i \in 1..Len(r.alerts) |-> "FireAlert"] \o [i \in 1..Len(r.slack) |-> "SendSlackMessage"]

\* the call of openPDAlerts without the JOB_TYPE guard
AlertsOfFileUnguarded(env, suites, fireOk) == openPDAlerts(suites, env.jobName, fireOk)

\* JOB_TYPE == "periodic" guards the call of openPDAlerts
AlertsOfFile(env, suites, fireOk) ==
    IF env.periodic THEN openPDAlerts(suites, env.jobName, fireOk)
    ELSE [alerts |-> <<>>, slack |-> <<>>]

\* the body of the loop over the files of the phase directory, for one file
ProcessFile(env, file, fireOk, acc) ==
    IF ~file.isJunit THEN acc
    ELSE IF ~file.parseOk
    THEN [acc EXCEPT !.stop = "parseError", !.calls = @ \o <<"IngestFile">>]
    ELSE LET tests == AllTests(file.suites)
             r == AlertsOfFile(env, file.suites, fireOk)
             rec == RecordTests(tests)
         IN [numTests |-> acc.numTests + CountTests(tests),
             numPassingTests |-> acc.numPassingTests + CountPassing(tests),
             testCaseData |-> acc.testCaseData \o rec.records,
             alerts |-> acc.alerts \o r.alerts,
             slack |-> acc.slack \o r.slack,
             calls |-> acc.calls \o <<"IngestFile">> \o AlertCalls(r),
             stop |-> IF rec.panicked THEN "panic" ELSE "no"]

RECURSIVE ProcessFiles(_, _, _, _)
\* "for _, file := range files": stops at a parse error (return) or a panic
ProcessFiles(env, files, fireOk, acc) ==
    IF files = <<>> \/ acc.stop # "no" THEN acc
    ELSE ProcessFiles(env, Tail(files), fireOk, ProcessFile(env, Head(files), fireOk, acc))

\* no call of metadata.Instance.SetPassRate
NoPassRate == [set |-> FALSE, num |-> 0, den |-> 0]

\* passRate := float64(numPassingTests) / float64(numTests); NaN (0/0) records no rate
PassRateOf(numPassingTests, numTests) ==
    IF numTests = 0 /\ numPassingTests = 0 THEN NoPassRate
    ELSE [set |-> TRUE, num |-> numPassingTests, den |-> numTests]

\* the collaborator calls of runTestsInPhase that make it return false
PhaseFailures ==
    {"none", "readDir", "reportReadDir", "logRead", "writeLogMetrics", "writeBeforeSuite",
     "getCluster"}

\* numTests and numPassingTests before the loop over the files
NoCounts == [numTests |-> 0, numPassingTests |-> 0]

\* numTests and numPassingTests when the loop over the files stopped
CountsOf(acc) == [numTests |-> acc.numTests, numPassingTests |-> acc.numPassingTests]

PhaseResult(passed, data, outcome, cs, alerts, slack, passRate, contents, cid, counts) ==
    [passed |-> passed, testCaseData |-> data, outcome |-> outcome, calls |-> cs,
     alerts |-> alerts, slack |-> slack, passRate |-> passRate,
     kubeconfigContents |-> contents, clusterID |-> cid,
     numTests |-> counts.numTests, numPassingTests |-> counts.numPassingTests]

\* a phase that goes on after provider.GetCluster returned an error
GetClusterErrorIgnored(cid, failAt) == FALSE

\* "if clusterID != ''" and the error of provider.GetCluster(clusterID)
GetClusterFails(cid, failAt) == cid /\ failAt = "getCluster"

\* runTestsInPhase after the loop over the result files returned normally
PhaseTail(env, in, acc, contents, cid) ==
    LET merge == IF env.periodic THEN <<"ProcessCICDIncidents">> ELSE <<>>
        rate == PassRateOf(acc.numPassingTests, acc.numTests)
        c1 == acc.calls \o merge \o (IF rate.set THEN <<"SetPassRate">> ELSE <<>>)
        Ret(passed, cs) ==
            PhaseResult(passed, acc.testCaseData, "returned", cs, acc.alerts, acc.slack,
                        rate, contents, cid, CountsOf(acc))
    IN IF in.failAt = "reportReadDir" THEN Ret(FALSE, c1 \o <<"ReadDir">>)
       ELSE LET c2 == c1 \o <<"ReadDir", "ResetLogMetrics", "ResetBeforeSuiteMetrics">> IN
       IF in.failAt = "logRead" THEN Ret(FALSE, c2 \o <<"ReadFile">>)
       ELSE IF in.failAt = "writeLogMetrics" THEN Ret(FALSE, c2 \o <<"WriteFile">>)
       ELSE IF in.failAt = "writeBeforeSuite" THEN Ret(FALSE, c2 \o <<"WriteFile", "WriteFile">>)
       ELSE LET c3 == c2 \o <<"WriteFile", "WriteFile">> IN
       IF GetClusterFails(cid, in.failAt) THEN Ret(FALSE, c3 \o <<"GetCluster">>)
       ELSE Ret(in.ginkgoPassed, c3 \o (IF cid THEN <<"GetCluster">> ELSE <<>>))

\* a phase that goes on after beforeSuite returned false
BeforeSuiteFailedIgnored(bs) == FALSE

\* "if !beforeSuite()"
BeforeSuiteFailed(bs) == ~bs.ok

\* runTestsInPhase(phase, description, dryrun). env: the viper and environment
\* values read; in: the outcomes of the collaborators (the phase directory, the
\* outcome of beforeSuite's collaborators, ginkgo's verdict, the first failing
\* call, the files found in the phase directory, FireAlert's outcome).
runTestsInPhase(phase, dryrun, env, in) ==
    IF in.dir = "mkdirFails"
    THEN PhaseResult(FALSE, <<>>, "returned", <<"Mkdir">>, <<>>, <<>>, NoPassRate,
                     env.kubeconfigContents, env.clusterID, NoCounts)
    ELSE LET c0 == IF in.dir = "mkdir" THEN <<"Mkdir">> ELSE <<>>
             bs == IF ~dryrun THEN beforeSuite(env, in.bs)
                   ELSE BeforeSuiteResult(TRUE, env.kubeconfigContents, env.clusterID, <<>>)
             c1 == c0 \o (IF ~dryrun THEN <<"beforeSuite">> ELSE <<>>)
         IN IF BeforeSuiteFailed(bs)
            THEN PhaseResult(FALSE, <<>>, "returned", c1, <<>>, <<>>, NoPassRate,
                             bs.kubeconfigContents, bs.clusterID, NoCounts)
            ELSE LET c2 == c1 \o <<"RunSpecs">> IN
            IF in.failAt = "readDir"
            THEN PhaseResult(FALSE, <<>>, "returned", c2 \o <<"ReadDir">>, <<>>, <<>>, NoPassRate,
                             bs.kubeconfigContents, bs.clusterID, NoCounts)
            ELSE LET acc == ProcessFiles(env, in.files, in.fireOk,
                                [numTests |-> 0, numPassingTests |-> 0, testCaseData |-> <<>>,
                                 alerts |-> <<>>, slack |-> <<>>, calls |-> c2 \o <<"ReadDir">>,
                                 stop |-> "no"])
                 IN IF acc.stop = "parseError"
                    THEN PhaseResult(FALSE, acc.testCaseData, "returned", acc.calls, acc.alerts,
                                     acc.slack, NoPassRate, bs.kubeconfigContents, bs.clusterID,
                                     CountsOf(acc))
                    ELSE IF acc.stop = "panic"
                    THEN PhaseResult(FALSE, acc.testCaseData, "panicked", acc.calls, acc.alerts,
                                     acc.slack, NoPassRate, bs.kubeconfigContents, bs.clusterID,
                                     CountsOf(acc))
                    ELSE PhaseTail(env, in, acc, bs.kubeconfigContents, bs.clusterID)

-----------------------------------------------------------------------------
(* The inputs of one runTestsInPhase call: SpecPhase *)

\* a file of the phase directory: not a junit file, an unparsable junit file, or
\* a junit file with its suites
NonJunitFile == [isJunit |-> FALSE, parseOk |-> TRUE, suites |-> <<>>]
BadJunitFile == [isJunit |-> TRUE, parseOk |-> FALSE, suites |-> <<>>]
JunitFile(suites) == [isJunit |-> TRUE, parseOk |-> TRUE, suites |-> suites]

\* result files with few test cases of every outcome
SmallFiles ==
    {NonJunitFile, BadJunitFile} \cup
    { JunitFile(Suites(0, f[1], f[2], 0, f[3], f[4], f[5])) :
        f \in (0..MaxPerOutcome) \X (0..MaxPerOutcome) \X (0..1) \X (0..1) \X (0..1) }

\* the result files read after another one: few test cases, none with an Error
LaterFiles ==
    {NonJunitFile, BadJunitFile} \cup
    { JunitFile(Suites(NameStride, 0, 0, 0, f[1], f[2], 0)) : f \in (0..1) \X (0..1) }

\* result files with up to MaxPhaseFail failures, named from base + 1
FailingFiles(base) ==
    { JunitFile(Suites(base, f[1], f[2], 0, 1, 0, 0)) : f \in (0..MaxPhaseFail) \X (0..1) }

\* the sequences of at most MaxFiles files over a set of files
FileLists(first, later) ==
    {<<>>} \cup { <<f>> : f \in first } \cup
    (IF MaxFiles >= 2 THEN { <<f, g>> : f \in first, g \in later } ELSE {}) \cup
    (IF MaxFiles >= 3 THEN { <<f, g, h>> : f \in {NonJunitFile}, g \in first, h \in later } ELSE {})

PhaseEnv(periodic, jobName, pathSet, addons, contents, cid) ==
    [periodic |-> periodic, jobName |-> jobName, kubeconfigPathSet |-> pathSet,
     addons |-> addons, kubeconfigContents |-> contents, clusterID |-> cid]

PhaseIn(dir, bs, ginkgoPassed, failAt, files, fireOk) ==
    [dir |-> dir, bs |-> bs, ginkgoPassed |-> ginkgoPassed, failAt |-> failAt,
     files |-> files, fireOk |-> fireOk]

PhaseCall(phase, dryrun, env, in) == [phase |-> phase, dryrun |-> dryrun, env |-> env, in |-> in]

\* the calls that vary everything read before the result files
FrontCalls ==
    { PhaseCall(InstallPhase, d, PhaseEnv(per, "osde2e-prod-aws-e2e-default", e[1], e[2], e[3], e[4]),
                PhaseIn(dir, bs, g, failAt, <<>>, TRUE)) :
        d \in BOOLEAN, per \in BOOLEAN, e \in BOOLEAN \X BOOLEAN \X BOOLEAN \X BOOLEAN,
        dir \in {"exists", "mkdir", "mkdirFails"}, bs \in BeforeSuiteOutcomes,
        g \in BOOLEAN, failAt \in PhaseFailures }

\* the calls that vary the result files, each with few test cases
FileCalls ==
    { PhaseCall(ph, FALSE, PhaseEnv(per, "osde2e-prod-aws-e2e-default", FALSE, FALSE, TRUE, TRUE),
                PhaseIn("exists", "ok", g, failAt, files, TRUE)) :
        ph \in {InstallPhase, UpgradePhase}, per \in BOOLEAN, g \in BOOLEAN,
        failAt \in {"none", "getCluster"}, files \in FileLists(SmallFiles, LaterFiles) }

\* the calls of a periodic run that vary the number of failures of the result files
AlertCallInputs ==
    { PhaseCall(InstallPhase, FALSE, PhaseEnv(TRUE, j, FALSE, FALSE, TRUE, TRUE),
                PhaseIn("exists", "ok", FALSE, "none", files, ok)) :
        j \in {"osde2e-prod-aws-e2e-default", "osde2e-int-addons"}, ok \in BOOLEAN,
        files \in FileLists(FailingFiles(0), FailingFiles(0) \cup FailingFiles(NameStride)) }

\* c is one of the calls of runTestsInPhase that are examined
PhaseCalls(c) == c \in FrontCalls \/ c \in FileCalls \/ c \in AlertCallInputs

PhaseInit ==
    /\ PhaseCalls(phaseIn)
    /\ phaseOut = "none"
    /\ phasePc = "idle"
    /\ AlertUnused
    /\ RunUnused
    /\ RouteUnused
    /\ MetricsUnused

\* one call of runTestsInPhase
RunPhase ==
    /\ phasePc = "idle"
    /\ phaseOut' = runTestsInPhase(phaseIn.phase, phaseIn.dryrun, phaseIn.env, phaseIn.in)
    /\ phasePc' = "called"
    /\ UNCHANGED <<phaseIn, alertVars, runVars, routeVars, metricVars>>

PhaseNext == RunPhase

SpecPhase == PhaseInit /\ [][PhaseNext]_vars

-----------------------------------------------------------------------------
(* runGinkgoTests and the goroutine of setupRouteMonitors: Spec *)

\* The configurations of a run. kubeconfigPathSet: config.Kubeconfig.Path is set;
\* mock: config.Provider is "mock"; addons: addon ids are configured; monitor is
\* config.Upgrade.MonitorRoutesDuringUpgrade and rescheduled is
\* config.Upgrade.ManagedUpgradeRescheduled, both read only when an upgrade is
\* configured; jobName is JOB_NAME, read only when JOB_TYPE is "periodic".
Configs ==
    { [periodic |-> j[1], jobName |-> j[2], dryRun |-> d, kubeconfigPathSet |-> k[1],
       mock |-> k[2], addons |-> k[3], upgrade |-> u[1], monitor |-> u[2],
       rescheduled |-> u[3], destroy |-> x] :
        j \in {<<FALSE, "">>, <<TRUE, "osde2e-prod-aws-e2e-default">>, <<TRUE, "osde2e-int-addons">>},
        d \in BOOLEAN, x \in BOOLEAN,
        k \in {<<FALSE, FALSE, FALSE>>, <<FALSE, FALSE, TRUE>>, <<TRUE, TRUE, TRUE>>},
        u \in {<<FALSE, FALSE, FALSE>>} \cup ({TRUE} \X BOOLEAN \X BOOLEAN) }

\* the cluster given to the run: none, or a cluster id with its kubeconfig
GivenClusters == {<<FALSE, FALSE>>, <<TRUE, TRUE>>}

Init ==
    /\ AlertUnused
    /\ PhaseUnused
    /\ RouteUnused
    /\ MetricsUnused
    /\ pc = "start"
    /\ cfg \in Configs
    /\ \E given \in GivenClusters : kubeconfigContents = given[1] /\ clusterID = given[2]
    /\ testsPassed = FALSE
    /\ upgradeTestsPassed = FALSE
    /\ installTestCaseData = <<>>
    /\ upgradeTestCaseData = <<>>
    /\ clusterPassing = FALSE
    /\ calls = <<>>
    /\ exitCode = "none"
    /\ monPc = "none"
    /\ routeMonitorChan = "nil"
    /\ closeMonitorChan = "open"
    /\ jobResult = "none"
    /\ clusterStatus = "none"

\* "return code, err" of runGinkgoTests
Return(code) == pc' = "done" /\ exitCode' = code

\* the values runTestsInPhase and beforeSuite read
EnvOfRun ==
    PhaseEnv(cfg.periodic, cfg.jobName, cfg.kubeconfigPathSet, cfg.addons /\ ~cfg.mock,
             kubeconfigContents, clusterID)

\* the result files a phase of a run may find
RunFirstFiles ==
    {BadJunitFile, JunitFile(Suites(0, 0, 0, 0, 1, 1, 0)), JunitFile(Suites(0, 1, 0, 0, 1, 0, 0))}
RunLaterFiles == {BadJunitFile}

\* the collaborator outcomes of a phase of a run
RunPhaseInputs ==
    { PhaseIn(dir, bs, g, failAt, <<>>, TRUE) :
        dir \in {"exists", "mkdirFails"},
        bs \in {"ok", "emptyKubeconfig", "provisionFails", "kubeconfigFails", "addonsFail"},
        g \in BOOLEAN, failAt \in {"none", "getCluster"} }
    \cup { PhaseIn("exists", "ok", g, "none", files, TRUE) :
        g \in BOOLEAN, files \in FileLists(RunFirstFiles, RunLaterFiles) }

\* the calls of a phase kept in the log of the run
KeyCalls ==
    {"Mkdir", "beforeSuite", "RunSpecs", "FireAlert", "SendSlackMessage", "ProcessCICDIncidents"}

RECURSIVE KeyCallsOf(_)
KeyCallsOf(cs) ==
    IF cs = <<>> THEN <<>>
    ELSE (IF Head(cs) \in KeyCalls THEN <<Head(cs)>> ELSE <<>>) \o KeyCallsOf(Tail(cs))

\* lines 289-378: the reporter, the build log, the provider, the versions
Setup ==
    /\ pc = "start"
    /\ clusterPassing' = FALSE
    /\ \E outcome \in {"ok", "buildLogFails", "providerFails", "chooseVersionsFails", "aborted"} :
        /\ (outcome \in {"chooseVersionsFails", "aborted"}) => ~(cfg.kubeconfigPathSet /\ cfg.mock)
        /\ IF outcome = "ok" THEN pc' = "install" /\ UNCHANGED exitCode
           ELSE IF outcome = "aborted" THEN Return(Aborted)
           ELSE Return(Failure)
    /\ UNCHANGED <<cfg, jobResult, clusterStatus, kubeconfigContents, clusterID, testsPassed, upgradeTestsPassed,
                   installTestCaseData, upgradeTestCaseData, calls, monPc, routeMonitorChan,
                   closeMonitorChan, alertVars, phaseVars, routeVars, metricVars>>

\* "upgrade cluster if requested", with a kubeconfig: where the run goes on
AfterInstall(contents) ==
    IF cfg.upgrade /\ contents
    THEN IF cfg.monitor /\ ~cfg.dryRun THEN "setupRouteMonitors" ELSE "runUpgrade"
    ELSE "finish"

\* lines 380-396: the install phase, getLogs, and the decision to upgrade
InstallPhaseStep ==
    /\ pc = "install"
    /\ \E in \in RunPhaseInputs :
        LET r == runTestsInPhase(InstallPhase, cfg.dryRun, EnvOfRun, in) IN
        /\ pdAlerts' = pdAlerts \o r.alerts
        /\ slackMsgs' = slackMsgs \o r.slack
        /\ kubeconfigContents' = r.kubeconfigContents
        /\ clusterID' = r.clusterID
        /\ IF r.outcome = "panicked"
           THEN /\ pc' = "panicked"
                /\ exitCode' = "panic"
                /\ calls' = calls \o <<"runTestsInPhase">> \o KeyCallsOf(r.calls)
                /\ UNCHANGED <<testsPassed, installTestCaseData, clusterPassing, upgradeTestsPassed>>
           ELSE /\ pc' = AfterInstall(r.kubeconfigContents)
                /\ calls' = calls \o <<"runTestsInPhase">> \o KeyCallsOf(r.calls) \o <<"getLogs">>
                /\ testsPassed' = r.passed
                /\ installTestCaseData' = r.testCaseData
                /\ clusterPassing' = r.passed
                /\ upgradeTestsPassed' = TRUE
                /\ UNCHANGED exitCode
    /\ UNCHANGED <<cfg, jobResult, clusterStatus, upgradeTestCaseData, monPc, routeMonitorChan, closeMonitorChan,
                   alertIn, alertPc, phaseVars, routeVars, metricVars>>

\* line 394: setupRouteMonitors makes routeMonitorChan and starts the goroutine
SetupRouteMonitors ==
    /\ pc = "setupRouteMonitors"
    /\ routeMonitorChan' = "open"
    /\ monPc' = "creating"
    /\ calls' = calls \o <<"setupRouteMonitors">>
    /\ pc' = "runUpgrade"
    /\ UNCHANGED <<cfg, jobResult, clusterStatus, kubeconfigContents, clusterID, testsPassed, upgradeTestsPassed,
                   installTestCaseData, upgradeTestCaseData, clusterPassing, exitCode,
                   closeMonitorChan, alertVars, phaseVars, routeVars, metricVars>>

\* a run that goes on after upgrade.RunUpgrade returned an error
UpgradeErrorIgnored(ok) == FALSE

\* "if err = upgrade.RunUpgrade(); err != nil"
UpgradeErrorReturns(ok) == ~ok

\* lines 398-412: upgrade.RunUpgrade(); an error returns Failure at once
RunUpgrade ==
    /\ pc = "runUpgrade"
    /\ \E ok \in BOOLEAN :
        /\ calls' = calls \o <<"RunUpgrade", IF ok THEN "UpgradeSuccessful" ELSE "UpgradeFailed">>
        /\ IF UpgradeErrorReturns(ok) THEN Return(Failure)
           ELSE /\ pc' = IF ~cfg.rescheduled THEN "upgradePhase" ELSE "closeMonitors"
                /\ UNCHANGED exitCode
    /\ UNCHANGED <<cfg, jobResult, clusterStatus, kubeconfigContents, clusterID, testsPassed, upgradeTestsPassed,
                   installTestCaseData, upgradeTestCaseData, clusterPassing, monPc,
                   routeMonitorChan, closeMonitorChan, alertVars, phaseVars, routeVars, metricVars>>

\* lines 406-411: the post-upgrade phase
UpgradePhaseStep ==
    /\ pc = "upgradePhase"
    /\ \E in \in RunPhaseInputs :
        LET r == runTestsInPhase(UpgradePhase, cfg.dryRun, EnvOfRun, in) IN
        /\ pdAlerts' = pdAlerts \o r.alerts
        /\ slackMsgs' = slackMsgs \o r.slack
        /\ kubeconfigContents' = r.kubeconfigContents
        /\ clusterID' = r.clusterID
        /\ calls' = calls \o <<"runTestsInPhase">> \o KeyCallsOf(r.calls)
        /\ IF r.outcome = "panicked"
           THEN /\ pc' = "panicked"
                /\ exitCode' = "panic"
                /\ clusterPassing' = FALSE
                /\ UNCHANGED <<upgradeTestsPassed, upgradeTestCaseData>>
           ELSE /\ pc' = "closeMonitors"
                /\ upgradeTestsPassed' = r.passed
                /\ upgradeTestCaseData' = r.testCaseData
                /\ clusterPassing' = r.passed
                /\ UNCHANGED exitCode
    /\ UNCHANGED <<cfg, jobResult, clusterStatus, testsPassed, installTestCaseData, monPc, routeMonitorChan,
                   closeMonitorChan, alertIn, alertPc, phaseVars, routeVars, metricVars>>

\* lines 414-416: close(routeMonitorChan) when the monitors were requested
CloseMonitors ==
    /\ pc = "closeMonitors"
    /\ IF cfg.monitor /\ ~cfg.dryRun
       THEN /\ routeMonitorChan' = "closed"
            /\ stopMark' = [given |-> TRUE, emitted |-> emitted]
            /\ calls' = calls \o <<"close(routeMonitorChan)">>
            /\ pc' = "waitMonitors"
       ELSE /\ pc' = "finish"
            /\ UNCHANGED <<routeMonitorChan, stopMark, calls>>
    /\ UNCHANGED <<cfg, jobResult, clusterStatus, kubeconfigContents, clusterID, testsPassed, upgradeTestsPassed,
                   installTestCaseData, upgradeTestCaseData, clusterPassing, exitCode, monPc,
                   closeMonitorChan, alertVars, phaseVars>>
    /\ UNCHANGED <<emitted, ended, forwarders, consolidator, Metrics, Plots, savedReports,
                   savedPlots, monLog, metricVars>>

\* a receive that returns while closeMonitorChan is still open
WaitMonitorsUnblocked ==
    /\ pc = "waitMonitors"
    /\ calls' = calls \o <<"<-closeMonitorChan">>
    /\ pc' = "finish"
    /\ UNCHANGED <<cfg, jobResult, clusterStatus, kubeconfigContents, clusterID, testsPassed, upgradeTestsPassed,
                   installTestCaseData, upgradeTestCaseData, clusterPassing, exitCode, monPc,
                   routeMonitorChan, closeMonitorChan, alertVars, phaseVars, routeVars, metricVars>>

\* line 417: "_ = <-closeMonitorChan" returns once the channel is closed
WaitMonitors ==
    /\ pc = "waitMonitors"
    /\ closeMonitorChan = "closed"
    /\ calls' = calls \o <<"<-closeMonitorChan">>
    /\ pc' = "finish"
    /\ UNCHANGED <<cfg, jobResult, clusterStatus, kubeconfigContents, clusterID, testsPassed, upgradeTestsPassed,
                   installTestCaseData, upgradeTestCaseData, clusterPassing, exitCode, monPc,
                   routeMonitorChan, closeMonitorChan, alertVars, phaseVars, routeVars, metricVars>>

\* the Result of a job that looks at the install phase alone
JobResultInstallOnly(tp, utp) == IF tp THEN "JobResultPassed" ELSE "JobResultFailed"

\* the Result closure of db.CreateJobParams
JobResultOf(tp, utp) == IF utp /\ tp THEN "JobResultPassed" ELSE "JobResultFailed"

\* lines 426-535: the job is stored in the database when config.JobID is set
\* (an error of the database is only logged), then the metadata and the
\* prometheus metrics are written and uploaded
WriteMetadata ==
    /\ pc = "finish"
    /\ \E db \in {"noJobID", "stored", "dbError"} :
        /\ jobResult' = IF db = "stored"
                        THEN JobResultOf(testsPassed, upgradeTestsPassed) ELSE jobResult
        /\ calls' = calls \o (IF db = "noJobID" THEN <<>> ELSE <<"WithDB">>) \o <<"WriteToJSON">>
    /\ \E ok \in BOOLEAN :
        IF ok THEN pc' = "destroy" /\ UNCHANGED exitCode ELSE Return(Failure)
    /\ UNCHANGED <<cfg, clusterStatus, kubeconfigContents, clusterID, testsPassed, upgradeTestsPassed,
                   installTestCaseData, upgradeTestCaseData, clusterPassing, monPc,
                   routeMonitorChan, closeMonitorChan, alertVars, phaseVars, routeVars, metricVars>>

\* lines 537-548: provider.DeleteCluster when config.Cluster.DestroyAfterTest
DestroyCluster ==
    /\ pc = "destroy"
    /\ IF cfg.destroy
       THEN /\ calls' = calls \o <<"DeleteCluster">>
            /\ \E ok \in BOOLEAN :
                IF ok THEN pc' = "cleanup" /\ UNCHANGED exitCode ELSE Return(Failure)
       ELSE pc' = "cleanup" /\ UNCHANGED <<calls, exitCode>>
    /\ UNCHANGED <<cfg, jobResult, clusterStatus, kubeconfigContents, clusterID, testsPassed, upgradeTestsPassed,
                   installTestCaseData, upgradeTestCaseData, clusterPassing, monPc,
                   routeMonitorChan, closeMonitorChan, alertVars, phaseVars, routeVars, metricVars>>

\* cleanupAfterE2E: the status it sets on the cluster when GetCluster gave it
\* one. clusterStatus starts as StatusCompletedFailing, an error while
\* gathering makes it StatusCompletedError, and the deferred function makes it
\* StatusCompletedPassing when config.Cluster.Passing is true
ClusterStatusOf(passing, gatherError) ==
    IF passing THEN "completed-passing"
    ELSE IF gatherError THEN "completed-error"
    ELSE "completed-failing"

\* cleanupAfterE2E: the calls it makes to the provider for the cluster of
\* config.Cluster.ID, in order: GetCluster when the id is set, Hibernate when
\* config.Cluster.HibernateAfterUse is true, and the AddProperty calls of the
\* deferred function when GetCluster gave a cluster
CleanupProviderCalls(cid, getClusterOk, hibernate) ==
    IF ~cid THEN <<>>
    ELSE <<"provider.GetCluster">>
         \o (IF hibernate THEN <<"provider.Hibernate">> ELSE <<>>)
         \o (IF getClusterOk THEN <<"provider.AddProperty">> ELSE <<>>)

\* a result of the run that looks at the install phase alone
TestsFailedInstallOnly(tp, utp) == ~tp

\* "if !testsPassed || !upgradeTestsPassed"
TestsFailed(tp, utp) == ~tp \/ ~utp

\* lines 550-568: getLogs and cleanupAfterE2E unless this is a dry run, then the
\* result of the run
CleanupAndReturn ==
    /\ pc = "cleanup"
    /\ \E helperOk \in BOOLEAN :
        IF ~cfg.dryRun /\ ~helperOk
        THEN /\ calls' = calls \o <<"getLogs">>
             /\ Return(Failure)
             /\ UNCHANGED <<clusterPassing, clusterStatus>>
        ELSE /\ \E gatherError \in BOOLEAN, getClusterOk \in BOOLEAN, hibernate \in BOOLEAN :
                  /\ clusterID \/ (getClusterOk /\ ~hibernate)
                  /\ clusterStatus' = IF ~cfg.dryRun /\ clusterID /\ getClusterOk
                                      THEN ClusterStatusOf(clusterPassing, gatherError)
                                      ELSE clusterStatus
                  /\ calls' = calls \o
                        (IF cfg.dryRun THEN <<>>
                         ELSE <<"getLogs", "cleanupAfterE2E">>
                              \o CleanupProviderCalls(clusterID, getClusterOk, hibernate))
             /\ IF TestsFailed(testsPassed, upgradeTestsPassed)
                THEN clusterPassing' = FALSE /\ Return(Failure)
                ELSE UNCHANGED clusterPassing /\ Return(Success)
    /\ UNCHANGED <<cfg, jobResult, kubeconfigContents, clusterID, testsPassed, upgradeTestsPassed,
                   installTestCaseData, upgradeTestCaseData, monPc,
                   routeMonitorChan, closeMonitorChan, alertVars, phaseVars, routeVars, metricVars>>

\* lines 1081-1089 of the goroutine: routemonitors.Create(); on an error
\* close(closeChannel) and return, otherwise Start()
MonitorCreate ==
    /\ monPc = "creating"
    /\ \E ok \in BOOLEAN :
        IF ok THEN monPc' = "running" /\ UNCHANGED closeMonitorChan
        ELSE monPc' = "exited" /\ closeMonitorChan' = "closed"
    /\ UNCHANGED <<pc, cfg, jobResult, clusterStatus, kubeconfigContents, clusterID, testsPassed, upgradeTestsPassed,
                   installTestCaseData, upgradeTestCaseData, clusterPassing, calls, exitCode,
                   routeMonitorChan, alertVars, phaseVars, routeVars, metricVars>>

\* lines 1113-1123 of the goroutine: "case <-routeMonitorChan": End, SaveReports,
\* SavePlots, ExtractData, StoreMetadata, close(closeChannel)
MonitorStop ==
    /\ monPc = "running"
    /\ routeMonitorChan = "closed"
    /\ monPc' = "exited"
    /\ closeMonitorChan' = "closed"
    /\ UNCHANGED <<pc, cfg, jobResult, clusterStatus, kubeconfigContents, clusterID, testsPassed, upgradeTestsPassed,
                   installTestCaseData, upgradeTestCaseData, clusterPassing, calls, exitCode,
                   routeMonitorChan, alertVars, phaseVars, routeVars, metricVars>>

Next ==
    \/ Setup
    \/ InstallPhaseStep
    \/ SetupRouteMonitors
    \/ RunUpgrade
    \/ UpgradePhaseStep
    \/ CloseMonitors
    \/ WaitMonitors
    \/ WriteMetadata
    \/ DestroyCluster
    \/ CleanupAndReturn
    \/ MonitorCreate
    \/ MonitorStop

Spec == Init /\ [][Next]_vars

-----------------------------------------------------------------------------
(* setupRouteMonitors: the goroutines around the upgrade, under SpecRoute.
   The run is taken from the call of setupRouteMonitors to the return of
   "<-closeMonitorChan"; the route monitors themselves (package routemonitors)
   are modelled by what the specification says of them. *)

\* a run that monitors the routes during an upgrade
RouteConfig ==
    [periodic |-> FALSE, jobName |-> "", dryRun |-> FALSE, kubeconfigPathSet |-> TRUE,
     mock |-> TRUE, addons |-> TRUE, upgrade |-> TRUE, monitor |-> TRUE,
     rescheduled |-> TRUE, destroy |-> FALSE]

\* the run after its install phase, at line 393
RouteInit ==
    /\ AlertUnused
    /\ PhaseUnused
    /\ RouteUnused
    /\ MetricsUnused
    /\ pc = "setupRouteMonitors"
    /\ cfg = RouteConfig
    /\ kubeconfigContents = TRUE
    /\ clusterID = TRUE
    /\ testsPassed = TRUE
    /\ clusterPassing = TRUE
    /\ upgradeTestsPassed = TRUE
    /\ installTestCaseData = <<>>
    /\ upgradeTestCaseData = <<>>
    /\ calls = <<"runTestsInPhase", "beforeSuite", "RunSpecs", "getLogs">>
    /\ exitCode = "none"
    /\ monPc = "none"
    /\ routeMonitorChan = "nil"
    /\ closeMonitorChan = "open"
    /\ jobResult = "none"
    /\ clusterStatus = "none"

\* what the goroutines of setupRouteMonitors leave alone
runRest == <<pc, cfg, jobResult, clusterStatus, kubeconfigContents, clusterID, testsPassed, upgradeTestsPassed,
             installTestCaseData, upgradeTestCaseData, clusterPassing, calls, exitCode,
             routeMonitorChan, metricVars>>

\* the monitors run from Start() to End()
Started == consolidator.pc # "none"

\* a monitor has a result for the receiver of its channel
MonitorHasResult(t) == Started /\ ~ended /\ emitted[t] < MaxSamples

\* the channel of a stopped monitor is closed
MonitorClosed(t) == ended

\* lines 1081-1086: routemonitors.Create(); an error closes closeChannel
Create ==
    /\ monPc = "creating"
    /\ \E ok \in BOOLEAN :
        IF ok THEN monPc' = "starting" /\ UNCHANGED <<closeMonitorChan, monLog>>
        ELSE /\ monPc' = "exited"
             /\ closeMonitorChan' = "closed"
             /\ monLog' = Append(monLog, "close(closeChannel)")
    /\ UNCHANGED <<runRest, alertVars, phaseVars, emitted, ended, forwarders, consolidator,
                   Metrics, Plots, savedReports, savedPlots, stopMark>>

\* lines 1089-1092: routeMonitors.Start() and "go func()" of the consolidation
StartMonitors ==
    /\ monPc = "starting"
    /\ monPc' = "select"
    /\ consolidator' = [pc |-> "forwarders", msg |-> NoMsg]
    /\ monLog' = Append(monLog, "Start")
    /\ UNCHANGED <<runRest, closeMonitorChan, alertVars, phaseVars, emitted, ended,
                   forwarders, Metrics, Plots, savedReports, savedPlots, stopMark>>

\* lines 1094-1101: make(agg) and one "go func(c)" per channel of Monitors
SpawnForwarders ==
    /\ consolidator.pc = "forwarders"
    /\ forwarders' = [t \in Targets |-> [pc |-> "range", msg |-> NoMsg]]
    /\ consolidator' = [consolidator EXCEPT !.pc = "select"]
    /\ UNCHANGED <<runRest, monPc, closeMonitorChan, alertVars, phaseVars, emitted, ended,
                   Metrics, Plots, savedReports, savedPlots, stopMark, monLog>>

\* line 1097: "for msg := range c" receives the next result of its monitor
ForwarderReceive(t) ==
    /\ forwarders[t].pc = "range"
    /\ MonitorHasResult(t)
    /\ emitted' = [emitted EXCEPT ![t] = @ + 1]
    /\ forwarders' = [forwarders EXCEPT
                        ![t] = [pc |-> "send", msg |-> [Attack |-> t, Seq |-> emitted[t] + 1]]]
    /\ UNCHANGED <<runRest, monPc, closeMonitorChan, alertVars, phaseVars, ended,
                   consolidator, Metrics, Plots, savedReports, savedPlots, stopMark, monLog>>

\* line 1097: "for msg := range c" ends when the channel is closed
ForwarderExit(t) ==
    /\ forwarders[t].pc = "range"
    /\ MonitorClosed(t)
    /\ forwarders' = [forwarders EXCEPT ![t] = [pc |-> "done", msg |-> NoMsg]]
    /\ UNCHANGED <<runRest, monPc, closeMonitorChan, alertVars, phaseVars, emitted, ended,
                   consolidator, Metrics, Plots, savedReports, savedPlots, stopMark, monLog>>

\* lines 1098 and 1105: "agg <- msg" meets "case msg := <-agg"
ForwarderSend(t) ==
    /\ forwarders[t].pc = "send"
    /\ consolidator.pc = "select"
    /\ consolidator' = [pc |-> "addMetrics", msg |-> forwarders[t].msg]
    /\ forwarders' = [forwarders EXCEPT ![t] = [pc |-> "range", msg |-> NoMsg]]
    /\ UNCHANGED <<runRest, monPc, closeMonitorChan, alertVars, phaseVars, emitted, ended,
                   Metrics, Plots, savedReports, savedPlots, stopMark, monLog>>

\* an accumulator that puts the newest result first
AddMetricsNewestFirst ==
    /\ consolidator.pc = "addMetrics"
    /\ Metrics' = [Metrics EXCEPT ![consolidator.msg.Attack] = <<consolidator.msg.Seq>> \o @]
    /\ consolidator' = [consolidator EXCEPT !.pc = "addPlots"]
    /\ UNCHANGED <<runRest, monPc, closeMonitorChan, alertVars, phaseVars, emitted, ended,
                   forwarders, Plots, savedReports, savedPlots, stopMark, monLog>>

\* line 1106: routeMonitors.Metrics[msg.Attack].Add(msg)
AddMetrics ==
    /\ consolidator.pc = "addMetrics"
    /\ Metrics' = [Metrics EXCEPT ![consolidator.msg.Attack] = Append(@, consolidator.msg.Seq)]
    /\ consolidator' = [consolidator EXCEPT !.pc = "addPlots"]
    /\ UNCHANGED <<runRest, monPc, closeMonitorChan, alertVars, phaseVars, emitted, ended,
                   forwarders, Plots, savedReports, savedPlots, stopMark, monLog>>

\* line 1107: routeMonitors.Plots[msg.Attack].Add(msg), then the loop of line 1102
AddPlots ==
    /\ consolidator.pc = "addPlots"
    /\ Plots' = [Plots EXCEPT ![consolidator.msg.Attack] = Append(@, consolidator.msg.Seq)]
    /\ consolidator' = [pc |-> "select", msg |-> NoMsg]
    /\ UNCHANGED <<runRest, monPc, closeMonitorChan, alertVars, phaseVars, emitted, ended,
                   forwarders, Metrics, savedReports, savedPlots, stopMark, monLog>>

\* lines 1115-1117: "case <-routeMonitorChan", then routeMonitors.End()
End ==
    /\ monPc = "select"
    /\ routeMonitorChan = "closed"
    /\ ended' = TRUE
    /\ monPc' = "SaveReports"
    /\ monLog' = Append(monLog, "End")
    /\ UNCHANGED <<runRest, closeMonitorChan, alertVars, phaseVars, emitted, forwarders,
                   consolidator, Metrics, Plots, savedReports, savedPlots, stopMark>>

\* line 1118: routeMonitors.SaveReports writes the report of every monitor
SaveReports ==
    /\ monPc = "SaveReports"
    /\ savedReports' = [written |-> TRUE, data |-> Metrics]
    /\ monPc' = "SavePlots"
    /\ monLog' = Append(monLog, "SaveReports")
    /\ UNCHANGED <<runRest, closeMonitorChan, alertVars, phaseVars, emitted, ended,
                   forwarders, consolidator, Metrics, Plots, savedPlots, stopMark>>

\* line 1119: routeMonitors.SavePlots writes the plot of every monitor
SavePlots ==
    /\ monPc = "SavePlots"
    /\ savedPlots' = [written |-> TRUE, data |-> Plots]
    /\ monPc' = "ExtractData"
    /\ monLog' = Append(monLog, "SavePlots")
    /\ UNCHANGED <<runRest, closeMonitorChan, alertVars, phaseVars, emitted, ended,
                   forwarders, consolidator, Metrics, Plots, savedReports, stopMark>>

\* lines 1120-1121: routeMonitors.ExtractData and routeMonitors.StoreMetadata
StoreMetadata ==
    /\ monPc = "ExtractData"
    /\ monPc' = "close"
    /\ monLog' = monLog \o <<"ExtractData", "StoreMetadata">>
    /\ UNCHANGED <<runRest, closeMonitorChan, alertVars, phaseVars, emitted, ended,
                   forwarders, consolidator, Metrics, Plots, savedReports, savedPlots,
                   stopMark>>

\* lines 1122-1123: close(closeChannel) and return
CloseChannel ==
    /\ monPc = "close"
    /\ closeMonitorChan' = "closed"
    /\ monPc' = "exited"
    /\ monLog' = Append(monLog, "close(closeChannel)")
    /\ UNCHANGED <<runRest, alertVars, phaseVars, emitted, ended, forwarders, consolidator,
                   Metrics, Plots, savedReports, savedPlots, stopMark>>

RouteNext ==
    \/ SetupRouteMonitors
    \/ RunUpgrade
    \/ CloseMonitors
    \/ WaitMonitors
    \/ Create
    \/ StartMonitors
    \/ SpawnForwarders
    \/ \E t \in Targets : ForwarderReceive(t)
    \/ \E t \in Targets : ForwarderExit(t)
    \/ \E t \in Targets : ForwarderSend(t)
    \/ AddMetrics
    \/ AddPlots
    \/ End
    \/ SaveReports
    \/ SavePlots
    \/ StoreMetadata
    \/ CloseChannel

SpecRoute == RouteInit /\ [][RouteNext]_vars

\* the Go scheduler runs every goroutine that can take a step
SpecRouteFair == RouteInit /\ [][RouteNext]_vars /\ WF_vars(RouteNext)

-----------------------------------------------------------------------------
(* The counters of metadata.Instance over the two phases of a run: what the   *)
(* install phase and the upgrade phase do to LogMetrics and                   *)
(* BeforeSuiteMetrics, and what each phase writes to its junit files.         *)

\* metadata.Instance.ResetLogMetrics()
ResetLogMetrics(v) == 0

\* metadata.Instance.ResetBeforeSuiteMetrics()
ResetBeforeSuiteMetrics(v) == 0

\* whether a call of runTestsInPhase got as far as a collaborator call
ReachedCall(r, call) == \E i \in DOMAIN r.calls : r.calls[i] = call

\* a phase that counts on top of what the counter already holds
LogMetricsAfterNoReset(before, r, in, matches) ==
    IF ~ReachedCall(r, "ResetLogMetrics") \/ in.failAt = "logRead" THEN before
    ELSE before + matches

\* LogMetrics when runTestsInPhase returns: untouched by a return before the
\* reset, else what IncrementLogMetric added over the log files of reportDir
\* (nothing when the first ReadFile fails)
LogMetricsAfter(before, r, in, matches) ==
    IF ~ReachedCall(r, "ResetLogMetrics") THEN before
    ELSE IF in.failAt = "logRead" THEN ResetLogMetrics(before)
    ELSE ResetLogMetrics(before) + matches

\* BeforeSuiteMetrics when runTestsInPhase returns
BeforeSuiteMetricsAfter(before, r, in, matches) ==
    IF ~ReachedCall(r, "ResetBeforeSuiteMetrics") THEN before
    ELSE IF in.failAt = "logRead" THEN ResetBeforeSuiteMetrics(before)
    ELSE ResetBeforeSuiteMetrics(before) + matches

\* junit_logmetrics.xml was written: the first WriteFile succeeded
WroteLogMetrics(r, in) == ReachedCall(r, "WriteFile") /\ in.failAt # "writeLogMetrics"

\* junit_beforesuite.xml was written: the second WriteFile succeeded
WroteBeforeSuite(r, in) == WroteLogMetrics(r, in) /\ in.failAt # "writeBeforeSuite"

\* what a phase wrote from the counters, beside what its own log files matched
MetricReport(phase, r, in, m, log, bs) ==
    [phase |-> phase, logMatched |-> m[1], beforeSuiteMatched |-> m[2],
     LogMetrics |-> log, BeforeSuiteMetrics |-> bs,
     beforeSuiteWritten |-> WroteBeforeSuite(r, in)]

\* the environment of the phases: a run that is not periodic
MetricsEnv == PhaseEnv(FALSE, "osde2e-prod-aws-e2e-default", FALSE, FALSE, TRUE, TRUE)

\* the outcomes of a phase's collaborators, without result files
MetricsInputs ==
    { PhaseIn(dir, bs, g, failAt, <<>>, TRUE) :
        dir \in {"exists", "mkdirFails"}, bs \in {"ok", "provisionFails"},
        g \in BOOLEAN, failAt \in PhaseFailures }

MetricsInit ==
    /\ logMetrics = 0
    /\ beforeSuiteMetrics = 0
    /\ metricReports = <<>>
    /\ metricsPc = InstallPhase
    /\ AlertUnused
    /\ PhaseUnused
    /\ RunUnused
    /\ RouteUnused

\* one call of runTestsInPhase, seen from the counters
MetricsPhase(phase, next) ==
    /\ metricsPc = phase
    /\ \E in \in MetricsInputs, m \in (0..MaxMatches) \X (0..MaxMatches) :
         LET r == runTestsInPhase(phase, FALSE, MetricsEnv, in)
             log == LogMetricsAfter(logMetrics, r, in, m[1])
             bs == BeforeSuiteMetricsAfter(beforeSuiteMetrics, r, in, m[2])
         IN /\ logMetrics' = log
            /\ beforeSuiteMetrics' = bs
            /\ metricReports' =
                 IF WroteLogMetrics(r, in)
                 THEN Append(metricReports, MetricReport(phase, r, in, m, log, bs))
                 ELSE metricReports
            /\ metricsPc' = IF r.outcome = "panicked" THEN "done" ELSE next
    /\ UNCHANGED <<alertVars, phaseVars, runVars, routeVars>>

\* testsPassed, installTestCaseData := runTestsInPhase(phase.InstallPhase, ...)
InstallPhaseMetrics == MetricsPhase(InstallPhase, UpgradePhase)

\* upgradeTestsPassed, upgradeTestCaseData = runTestsInPhase(phase.UpgradePhase, ...)
UpgradePhaseMetrics == MetricsPhase(UpgradePhase, "done")

MetricsNext ==
    \/ InstallPhaseMetrics
    \/ UpgradePhaseMetrics

SpecMetrics == MetricsInit /\ [][MetricsNext]_vars

-----------------------------------------------------------------------------
(* Properties of the metric counters, checked under SpecMetrics *)

-----------------------------------------------------------------------------
(* Properties of the run, checked under Spec *)

\* the number of entries of a log equal to a call
CountOf(cs, call) == Cardinality({ i \in DOMAIN cs : cs[i] = call })

Called(call) == \E i \in DOMAIN calls : calls[i] = call

\* C1: once upgrade.RunUpgrade has returned an error, the run has returned
\* Failure, no test phase was started after the install phase, and there is no
\* upgrade-phase test case record.
C1_UpgradeFailureIsFatal ==
    Called("UpgradeFailed")
    => /\ pc = "done"
       /\ exitCode = Failure
       /\ CountOf(calls, "runTestsInPhase") = 1
       /\ upgradeTestCaseData = <<>>
       /\ calls[Len(calls)] = "UpgradeFailed"

\* C1 witness: the upgrade failed after an install phase that passed, and the
\* run returned Failure.
C1_Witness ==
    /\ pc = "done"
    /\ Called("UpgradeFailed")
    /\ testsPassed
    /\ exitCode = Failure

\* C2 as stated: when the run has returned after the install phase was started
\* (outside a dry run, which has no cleanup), cleanupAfterE2E has been called.
C2_CleanupOnEveryExit ==
    (pc = "done" /\ ~cfg.dryRun /\ Called("runTestsInPhase"))
    => Called("cleanupAfterE2E")

\* C3 as stated: when the run has returned and the route monitors had been
\* started, the run has closed routeMonitorChan and has waited for
\* closeMonitorChan.
C3_MonitorsAlwaysStopped ==
    (pc = "done" /\ Called("setupRouteMonitors"))
    => (routeMonitorChan = "closed" /\ Called("<-closeMonitorChan"))

\* the positions of a call in the log of the run
PositionsOf(call) == { i \in DOMAIN calls : calls[i] = call }

\* C11 as stated (for a run that returns Success): in a periodic run
\* pagerduty.ProcessCICDIncidents is called exactly once, and no incident is
\* fired after it.
C11_MergeOncePerRun ==
    (pc = "done" /\ exitCode = Success /\ cfg.periodic)
    => /\ CountOf(calls, "ProcessCICDIncidents") = 1
       /\ \A i \in PositionsOf("FireAlert"), j \in PositionsOf("ProcessCICDIncidents") : i < j

\* the install phase returned because os.Mkdir failed or because beforeSuite
\* returned false: getLogs of line 381 follows the failed call at once
InstallPhaseFatal ==
    /\ Len(calls) >= 3
    /\ calls[1] = "runTestsInPhase"
    /\ calls[2] \in {"Mkdir", "beforeSuite"}
    /\ calls[3] = "getLogs"

\* C17 as stated (for a phase directory that cannot be created and for a failed
\* cluster acquisition): after an install phase that ended with a fatal error
\* the run does not call upgrade.RunUpgrade and starts no other phase.
C17_FatalInstallSkipsUpgrade ==
    InstallPhaseFatal
    => /\ ~Called("RunUpgrade")
       /\ ~Called("setupRouteMonitors")
       /\ CountOf(calls, "runTestsInPhase") = 1

C22_MonitorsStoppedBeforeUpgradePhase ==
    (pc = "upgradePhase" /\ Called("setupRouteMonitors") /\ Called("UpgradeSuccessful"))
    => (routeMonitorChan = "closed" /\ Called("<-closeMonitorChan"))

\* C23 as stated: in a run that is not a dry run, provider.DeleteCluster is
\* called only after the cleanup (getLogs and cleanupAfterE2E) was done.
C23_DestroyAfterFinalizing ==
    ~cfg.dryRun
    => \A i \in PositionsOf("DeleteCluster") :
           \E j \in PositionsOf("cleanupAfterE2E") : j < i

\* C27: the Result of the stored job is Passed exactly when the install phase
\* passed and the upgrade phase, when one ran, passed; a run that returns
\* Success has stored Passed, and a run that stored Failed returns Failure.
C27_JobResultAgrees ==
    jobResult # "none"
    => /\ jobResult = "JobResultPassed" <=> (testsPassed /\ upgradeTestsPassed)
       /\ (pc = "done" /\ exitCode = Success) => jobResult = "JobResultPassed"
       /\ (pc = "done" /\ jobResult = "JobResultFailed") => exitCode = Failure

\* a run whose install phase passed and whose upgrade phase failed stored
\* Failed and returned Failure after its cleanup
C27_Witness ==
    /\ pc = "done" /\ exitCode = Failure
    /\ CountOf(calls, "runTestsInPhase") = 2
    /\ testsPassed /\ ~upgradeTestsPassed
    /\ jobResult = "JobResultFailed"
    /\ Called("cleanupAfterE2E")

\* C29 as stated: cleanupAfterE2E sets the completed-passing status on the
\* cluster only in a run whose every phase that ran passed.
C29_PassingMarkNeedsAllPhases ==
    clusterStatus = "completed-passing" => (testsPassed /\ upgradeTestsPassed)

\* the calls cleanupAfterE2E makes to the provider for the cluster
ProviderCallsOfCleanup == {"provider.GetCluster", "provider.Hibernate", "provider.AddProperty"}

\* C32 as stated: once provider.DeleteCluster was called, no call is made to
\* the provider for that cluster: no GetCluster, no Hibernate, no AddProperty.
C32_NothingAfterDestroy ==
    \A i \in PositionsOf("DeleteCluster") :
        \A j \in DOMAIN calls : (j > i) => calls[j] \notin ProviderCallsOfCleanup

-----------------------------------------------------------------------------
(* Properties of runTestsInPhase, checked under SpecPhase *)

\* the elements of a sequence
Range(seq) == { seq[i] : i \in DOMAIN seq }

\* the names of the failed test cases of the parsed junit files of a phase
FailedNamesOfPhase(files) ==
    UNION { UNION { { t.Name : t \in { u \in Range(suite.Tests) : u.Status = "failed" } } :
                    suite \in Range(file.suites) } :
            file \in { f \in Range(files) : f.isJunit /\ f.parseOk } }

\* C4: when beforeSuite is called in a phase and returns false, runTestsInPhase
\* returns passed = false with no test case record and ginkgo's RunSpecs is
\* not called in that phase.
C4_AcquisitionFailure ==
    (/\ phasePc = "called"
     /\ ~phaseIn.dryrun
     /\ phaseIn.in.dir # "mkdirFails"
     /\ ~beforeSuite(phaseIn.env, phaseIn.in.bs).ok)
    => /\ phaseOut.outcome = "returned"
       /\ phaseOut.passed = FALSE
       /\ phaseOut.testCaseData = <<>>
       /\ \A i \in DOMAIN phaseOut.calls : phaseOut.calls[i] # "RunSpecs"

\* C4 witness: provisioning failed in a phase whose ginkgo verdict would have
\* been a pass; beforeSuite was the last call of the phase.
C4_Witness ==
    /\ phasePc = "called"
    /\ ~phaseIn.dryrun
    /\ phaseIn.in.bs = "provisionFails"
    /\ ~phaseIn.env.kubeconfigPathSet /\ ~phaseIn.env.kubeconfigContents
    /\ phaseIn.in.dir = "mkdir"
    /\ phaseIn.in.ginkgoPassed
    /\ phaseOut.calls = <<"Mkdir", "beforeSuite">>
    /\ phaseOut.passed = FALSE

\* C7 as stated (for a job that is not an addon job and failing names without
\* the informing marker): in a periodic run, a phase whose result files hold
\* more than 10 distinct failing test names fires exactly one incident, with an
\* empty group key, and no per-test incident.
C7_OneBulkIncidentPerPhase ==
    (/\ phasePc = "called"
     /\ phaseIn.env.periodic
     /\ phaseIn.env.jobName \notin AddonJobNames
     /\ \A n \in FailedNamesOfPhase(phaseIn.in.files) : ~IsInforming(n)
     /\ Cardinality(FailedNamesOfPhase(phaseIn.in.files)) > BulkThreshold)
    => /\ Len(phaseOut.alerts) = 1
       /\ phaseOut.alerts[1].Group = ""

\* C12: in a phase of a run that is not periodic no incident is fired, no
\* slack message is sent and pagerduty.ProcessCICDIncidents is not called,
\* whatever the result files hold.
C12_NonPeriodicSilent ==
    (phasePc = "called" /\ ~phaseIn.env.periodic)
    => /\ phaseOut.alerts = <<>>
       /\ phaseOut.slack = <<>>
       /\ \A i \in DOMAIN phaseOut.calls :
            phaseOut.calls[i] \notin {"FireAlert", "SendSlackMessage", "ProcessCICDIncidents"}

\* C12 witness: a phase that is not periodic has read a result file with a
\* failed test case whose name has no informing marker.
C12_Witness ==
    /\ phasePc = "called"
    /\ ~phaseIn.env.periodic
    /\ \E n \in FailedNamesOfPhase(phaseIn.in.files) : ~IsInforming(n)
    /\ \E i \in DOMAIN phaseOut.calls : phaseOut.calls[i] = "IngestFile"
    /\ phaseOut.alerts = <<>>

RECURSIVE FilesCounted(_)
\* the result files whose test cases were counted: the junit files before the
\* first one that does not parse, up to the first one whose recording panics
FilesCounted(files) ==
    IF files = <<>> THEN <<>>
    ELSE IF ~Head(files).isJunit THEN FilesCounted(Tail(files))
    ELSE IF ~Head(files).parseOk THEN <<>>
    ELSE IF \E t \in Range(AllTests(Head(files).suites)) : t.HasError THEN <<Head(files)>>
    ELSE <<Head(files)>> \o FilesCounted(Tail(files))

RECURSIVE TestsOfFiles(_)
TestsOfFiles(files) ==
    IF files = <<>> THEN <<>> ELSE AllTests(Head(files).suites) \o TestsOfFiles(Tail(files))

\* the test cases the phase of phaseIn counted, when it got to its result files
TestsCounted == TestsOfFiles(FilesCounted(phaseIn.in.files))

\* the phase of phaseIn has read its phase directory
ReachedFiles ==
    /\ phasePc = "called"
    /\ phaseIn.in.failAt # "readDir"
    /\ \E i \in DOMAIN phaseOut.calls : phaseOut.calls[i] = "ReadDir"

\* the number of counted test cases with a status of a set
NumWithStatus(statuses) ==
    Cardinality({ i \in DOMAIN TestsCounted : TestsCounted[i].Status \in statuses })

\* C13: after collection numPassingTests <= numTests, and numTests is the
\* number of test cases that are not skipped, so that a skipped test case is in
\* neither count.
C13_PassingAtMostTotal ==
    ReachedFiles
    => /\ phaseOut.numPassingTests <= phaseOut.numTests
       /\ phaseOut.numTests = NumWithStatus({StatusPassed, StatusFailed, StatusError})

\* C13 witness: a phase counted a skipped and a passed test case and nothing else.
C13_Witness ==
    /\ ReachedFiles
    /\ NumWithStatus({StatusSkipped}) = 1
    /\ NumWithStatus({StatusPassed}) = 1
    /\ Len(TestsCounted) = 2
    /\ phaseOut.numTests = 1
    /\ phaseOut.numPassingTests = 1

\* C14 as stated: every failed and every errored test case is in numTests and
\* not in numPassingTests; numPassingTests is the number of passed test cases.
C14_FailedAndErroredNotPassing ==
    ReachedFiles
    => /\ phaseOut.numTests = NumWithStatus({StatusPassed, StatusFailed, StatusError})
       /\ phaseOut.numPassingTests = NumWithStatus({StatusPassed})

\* the junit files of the phase of phaseIn, all of which parse
AllFilesParse == \A f \in Range(phaseIn.in.files) : f.isJunit => f.parseOk

\* the test cases of all the junit files of the phase of phaseIn
PhaseTests == TestsOfFiles(SelectSeq(phaseIn.in.files, LAMBDA f : f.isJunit /\ f.parseOk))

\* the test cases of the phase that are not skipped
NonSkippedOfPhase == { i \in DOMAIN PhaseTests : PhaseTests[i].Status # StatusSkipped }

\* C15 as stated: a phase that read its result files, all of which parse,
\* records no pass rate when it has no test case that is not skipped, and
\* otherwise records numPassingTests / numTests, numTests being the number of
\* its test cases that are not skipped.
C15_PassRateRecorded ==
    (ReachedFiles /\ AllFilesParse)
    => IF NonSkippedOfPhase = {}
       THEN ~phaseOut.passRate.set
       ELSE /\ phaseOut.passRate.set
            /\ phaseOut.passRate.den = Cardinality(NonSkippedOfPhase)
            /\ phaseOut.passRate.num = phaseOut.numPassingTests

\* C16 as stated: a phase that returns after one of its result files failed to
\* parse returns passed = false, no test case record, and records no pass rate.
C16_ParseErrorNoPartialCredit ==
    (ReachedFiles /\ ~AllFilesParse /\ phaseOut.outcome = "returned")
    => /\ phaseOut.passed = FALSE
       /\ phaseOut.testCaseData = <<>>
       /\ ~phaseOut.passRate.set

\* C25 as stated: a phase whose result files all parse and hold a test case
\* with an error returns normally with one record per test case, in order, and
\* the record of every test case with an error has an error text.
C25_ErrorRecordBuilt ==
    (ReachedFiles /\ AllFilesParse /\ \E i \in DOMAIN PhaseTests : PhaseTests[i].HasError)
    => /\ phaseOut.outcome = "returned"
       /\ Len(phaseOut.testCaseData) = Len(PhaseTests)
       /\ \A i \in DOMAIN PhaseTests :
            /\ phaseOut.testCaseData[i].Name = PhaseTests[i].Name
            /\ PhaseTests[i].HasError => phaseOut.testCaseData[i].Error # ""

\* the db.TestResult that stands for a junit.Status
ExpectedResult(status) ==
    CASE status = StatusPassed -> "TestResultPassed"
      [] status = StatusFailed -> "TestResultFailure"
      [] status = StatusSkipped -> "TestResultSkipped"
      [] status = StatusError -> "TestResultError"

\* the test cases of the first result file of the phase of phaseIn, when it
\* is a junit file that parses
FirstFileTests ==
    IF phaseIn.in.files # <<>> /\ phaseIn.in.files[1].isJunit /\ phaseIn.in.files[1].parseOk
    THEN AllTests(phaseIn.in.files[1].suites)
    ELSE <<>>

\* C26 as stated: the result computed for the record of a test case is the
\* one that stands for its status: passed for passed, failure for failed,
\* skipped for skipped, and error only for error.
C26_ResultEqualsStatus ==
    ReachedFiles
    => \A i \in DOMAIN ResultsComputed(FirstFileTests) :
           ResultsComputed(FirstFileTests)[i] = ExpectedResult(FirstFileTests[i].Status)

\* an error that makes the phase of phaseIn return early, wherever it is met:
\* the phase directory, beforeSuite, the read of a directory, a result file
\* that does not parse, a log file, a junit file of the metrics, GetCluster
ErrorInPhase ==
    \/ phaseIn.in.dir = "mkdirFails"
    \/ ~phaseIn.dryrun /\ ~beforeSuite(phaseIn.env, phaseIn.in.bs).ok
    \/ phaseIn.in.failAt \in {"readDir", "reportReadDir", "logRead", "writeLogMetrics",
                               "writeBeforeSuite"}
    \/ ~AllFilesParse
    \/ phaseIn.in.failAt = "getCluster" /\ phaseOut.clusterID

\* C31: a call of runTestsInPhase that returns passed = true has called
\* ginkgo's RunSpecs, which reported success; a call that returns after any
\* of its errors returns passed = false.
C31_PassedOnlyWithRunnerSuccess ==
    (phasePc = "called" /\ phaseOut.outcome = "returned")
    => /\ phaseOut.passed
          => /\ \E i \in DOMAIN phaseOut.calls : phaseOut.calls[i] = "RunSpecs"
             /\ phaseIn.in.ginkgoPassed
       /\ ErrorInPhase => ~phaseOut.passed

\* a phase whose tests passed met its last possible error, that of
\* provider.GetCluster, and returned passed = false
C31_Witness ==
    /\ phasePc = "called" /\ phaseOut.outcome = "returned"
    /\ phaseIn.in.ginkgoPassed
    /\ phaseIn.in.failAt = "getCluster"
    /\ phaseOut.calls[Len(phaseOut.calls)] = "GetCluster"
    /\ ~phaseOut.passed

-----------------------------------------------------------------------------
(* Properties of openPDAlerts, checked under SpecAlert *)

\* the number of failed test case entries of the input, every entry counted
FailedEntries(in) == in.nplain + in.ninf + DupCount(in)

\* the names of the failed entries without the informing marker, in file order
ExpectedPerTestNames(in) ==
    [i \in 1..in.nplain |-> PlainName(i)] \o [i \in 1..DupCount(in) |-> PlainName(i)]

\* C28 as stated: in the bulk case (more than 10 failed entries, job not an
\* addon job) one message is sent to slack beside the single incident,
\* whether FireAlert returned an error or not.
C28_BulkSummaryAlwaysPosted ==
    (alertPc = "called" /\ alertIn.jobName \notin AddonJobNames
        /\ FailedEntries(alertIn) > BulkThreshold)
    => /\ Len(pdAlerts) = 1
       /\ Len(slackMsgs) = 1

\* C8 as stated: with at most 10 distinct failing tests (job not an addon job),
\* one incident per distinct non-informing failing test, whose summary and
\* group key are both the test name.
C8_Original ==
    (alertPc = "called" /\ alertIn.jobName \notin AddonJobNames
        /\ alertIn.nplain + alertIn.ninf <= BulkThreshold)
    => /\ Len(pdAlerts) = alertIn.nplain
       /\ \A i \in 1..Len(pdAlerts) :
            /\ pdAlerts[i].Summary = PlainName(i)
            /\ pdAlerts[i].Group = PlainName(i)

\* C8 amended: with at most 10 failed test case entries (informing and repeated
\* names counted) and a job that is not an addon job, one incident is fired per
\* failed entry without the informing marker, in file order, with summary
\* "<name> failed" and group key "<name>"; nothing is posted to slack.
C8_PerTestIncidents ==
    (alertPc = "called" /\ alertIn.jobName \notin AddonJobNames
        /\ FailedEntries(alertIn) <= BulkThreshold)
    => LET names == ExpectedPerTestNames(alertIn) IN
       /\ Len(pdAlerts) = Len(names)
       /\ \A i \in 1..Len(names) :
            /\ pdAlerts[i].Summary = names[i] \o " failed"
            /\ pdAlerts[i].Group = names[i]
            /\ pdAlerts[i].Source = alertIn.jobName
       /\ slackMsgs = <<>>

\* C8 witness: three plain failures, one informing failure and one repeated name
\* gave four per-test incidents.
C8_Witness ==
    /\ alertPc = "called"
    /\ alertIn.jobName = "osde2e-prod-aws-e2e-default"
    /\ alertIn.nplain = 3 /\ alertIn.ninf = 1 /\ alertIn.ndup = 1
    /\ Len(pdAlerts) = 4
    /\ pdAlerts[2].Group = "[Suite: e2e] test 2"

\* C9 as stated: informing failures never get an incident of their own and do
\* not count toward the bulk threshold, so failures that are all informing
\* fire no incident.
C9_InformingExcluded ==
    alertPc = "called"
    => /\ \A i \in 1..Len(pdAlerts) : ~Contains(pdAlerts[i].Group, "informing")
       /\ (alertIn.nplain = 0 => pdAlerts = <<>>)
       /\ (alertIn.nplain + DupCount(alertIn) <= BulkThreshold
             => \A i \in 1..Len(pdAlerts) : pdAlerts[i].Summary # "A lot of tests failed together")

\* C10: for an addon job (name contains "addon" in any letter case) no incident
\* is fired and nothing is posted to slack, whatever failed.
C10_AddonJobSilent ==
    (alertPc = "called" /\ alertIn.jobName \in AddonJobNames)
    => (pdAlerts = <<>> /\ slackMsgs = <<>>)

\* C10 witness: an addon job spelled with a capital letter, eleven failures.
C10_Witness ==
    /\ alertPc = "called"
    /\ alertIn.jobName = "osde2e-stage-Addon-tests"
    /\ alertIn.nplain = 11
    /\ pdAlerts = <<>>

-----------------------------------------------------------------------------
(* Properties of the route monitors, checked under SpecRoute *)

\* every result a monitor delivered before routeMonitorChan was closed
EmittedBeforeStop(t) == 1 .. stopMark.emitted[t]

\* C5 as stated: once the reports are written, every result a monitor emitted
\* before the stop signal had been added to its accumulator and is in its report.
C5_NoSampleLoss ==
    savedReports.written
    => \A t \in Targets : EmittedBeforeStop(t) \subseteq Range(savedReports.data[t])

\* the stop handler is at a call that reads the accumulators or the plot buffers
HandlerAccesses == monPc \in {"SaveReports", "SavePlots", "ExtractData"}

\* the consolidation is at a write, or a forwarder holds a result for it
ConsolidatorCanWrite ==
    \/ consolidator.pc \in {"addMetrics", "addPlots"}
    \/ \E t \in Targets : forwarders[t].pc = "send"

\* C6 as stated: no task but the consolidation accesses an accumulator while
\* the consolidation can still write to it.
C6_SingleWriterNoConcurrentAccess == ~(HandlerAccesses /\ ConsolidatorCanWrite)

\* the calls of a goroutine that started the monitors and was told to stop
FullStopLog ==
    <<"Start", "End", "SaveReports", "SavePlots", "ExtractData", "StoreMetadata",
      "close(closeChannel)">>

\* C20 as stated: closeChannel is closed only after End, SaveReports, SavePlots
\* and StoreMetadata, in that order.
C20_SignalOnlyAfterFlush ==
    closeMonitorChan = "closed" => monLog = FullStopLog

\* C20: when the monitors were created, closeChannel is closed only after the
\* stop signal was received and End, SaveReports, SavePlots, ExtractData and
\* StoreMetadata ran, in that order, and the caller's receive returns only
\* once closeChannel is closed; when routemonitors.Create failed, closeChannel
\* is closed at once and nothing is written.
C20_SignalAfterFlushWhenCreated ==
    /\ closeMonitorChan = "closed"
       => \/ monLog = <<"close(closeChannel)">> /\ ~savedReports.written /\ ~savedPlots.written
          \/ /\ monLog = FullStopLog
             /\ routeMonitorChan = "closed" /\ ended
             /\ savedReports.written /\ savedPlots.written
    /\ Called("<-closeMonitorChan") => closeMonitorChan = "closed"

\* the caller's receive returned after a full stop of started monitors
C20_Witness ==
    /\ Called("<-closeMonitorChan")
    /\ monLog = FullStopLog
    /\ savedReports.written /\ savedPlots.written

\* the results of a sequence are in the order their monitor emitted them
InEmissionOrder(seq) == \A i, j \in DOMAIN seq : i < j => seq[i] < seq[j]

\* C21: for every target, the results in its accumulator and in its plot
\* buffer are in the order its monitor emitted them, whatever the interleaving
\* of the forwarders of the other targets.
C21_PerTargetEmissionOrder ==
    \A t \in Targets : InEmissionOrder(Metrics[t]) /\ InEmissionOrder(Plots[t])

\* one target has several results in its accumulator, and another target's
\* results were added between them or around them
C21_Witness ==
    \E t, u \in Targets :
        /\ t # u
        /\ Len(Metrics[t]) >= 2 /\ Len(Plots[t]) >= 2
        /\ Len(Metrics[u]) >= 1

\* the caller's stop of started monitors has returned
StopReturned == Called("<-closeMonitorChan") /\ monLog = FullStopLog

\* C24 as stated: once the stop of started monitors has returned, the
\* consolidation goroutine and every forwarder goroutine have returned.
C24_NoTaskLeftAfterStop ==
    StopReturned
    => /\ consolidator.pc = "done"
       /\ \A t \in Targets : forwarders[t].pc = "done"

\* C30 as stated: in every execution in which the route monitors were set
\* up, closeChannel is eventually closed (never left open), and a receive of
\* the orchestrator on it eventually returns.
C30_HandshakeCompletes ==
    /\ <>(closeMonitorChan = "closed")
    /\ (pc = "waitMonitors") ~> Called("<-closeMonitorChan")

====
